---- MODULE Spec2Model ----
(***************************************************************************)
(* Model of quickemu_space's VM creation flow:                             *)
(*   - the selection page (creation/options.rs, with the combo box of      *)
(*     creation.rs): dependent release / edition / architecture lists,     *)
(*     the derived default VM name, the Next button and to_instance;       *)
(*   - the download page (creation/download.rs): one streaming task per    *)
(*     download, messages in flight to DownloadStatus::update, cancel and  *)
(*     finalize.                                                           *)
(* Strings are sequences of one-character strings; an Option<T> is a       *)
(* sequence of length 0 (None) or 1 (Some).                                *)
(***************************************************************************)
EXTENDS Integers, Sequences, FiniteSets, Bags, TLC

VARIABLES
    os_list,    \* State.os_list: the catalog the session has fetched
    options,    \* the OptionSelection of the Options page
    page,       \* the page the session shows
    pending,    \* Option<vm_name>: a StartDownloads message emitted by the Next button, not yet handled
    outcome,    \* what handling StartDownloads did with to_instance
    downloads,  \* DownloadStatus.downloads: id -> Download
    task,       \* id -> where that download's task stands in its stream
    aborted,    \* whether DownloadStatus.handle has been aborted
    chan,       \* id -> the events that download's task has produced and update has not handled, oldest first
    jobs,       \* the bag of tasks returned by update: their remaining steps and their unhandled messages
    create_config_calls, \* how many times create_config has run
    emitted     \* history: id -> the events that download's task has produced

dlvars == <<downloads, task, aborted, chan, jobs, create_config_calls, emitted>>

vars == <<os_list, options, page, pending, outcome, dlvars>>

-----------------------------------------------------------------------------
(* Bounds of the model *)

\* the longest release list of a generated catalog entry
MaxConfigs == 2

\* the most downloads an instance asks for
MaxDownloads == 2

\* the most items (chunks or errors) the body streams of one session yield between them
MaxChunks == 2

\* the most tasks returned by update that are still running when a button of the
\* download page is pressed
MaxJobs == 2

-----------------------------------------------------------------------------
(* Option and sequence helpers *)

None == <<>>

Some(v) == <<v>>

IsSome(o) == Len(o) = 1

Contains(seq, v) == \E i \in 1..Len(seq) : seq[i] = v

Range(seq) == {seq[i] : i \in 1..Len(seq)}

\* itertools unique(): keeps the first occurrence of every element, in order
RECURSIVE UniqueFrom(_, _)
UniqueFrom(seq, seen) ==
    IF seq = <<>> THEN <<>>
    ELSE IF Head(seq) \in seen THEN UniqueFrom(Tail(seq), seen)
    ELSE <<Head(seq)>> \o UniqueFrom(Tail(seq), seen \cup {Head(seq)})

Unique(seq) == UniqueFrom(seq, {})

-----------------------------------------------------------------------------
(* Characters *)

LowerCase == <<"a","b","c","d","e","f","g","h","i","j","k","l","m",
               "n","o","p","q","r","s","t","u","v","w","x","y","z">>

UpperCase == <<"A","B","C","D","E","F","G","H","I","J","K","L","M",
               "N","O","P","Q","R","S","T","U","V","W","X","Y","Z">>

Digits == {"0","1","2","3","4","5","6","7","8","9"}

\* char::to_ascii_lowercase
to_ascii_lowercase(c) ==
    IF \E i \in 1..26 : UpperCase[i] = c
    THEN LowerCase[CHOOSE i \in 1..26 : UpperCase[i] = c]
    ELSE c

\* char::is_alphanumeric, on the ASCII characters the model uses
is_alphanumeric(c) == c \in Range(LowerCase) \cup Range(UpperCase) \cup Digits

-----------------------------------------------------------------------------
(* The catalog: releases, editions, architectures and OS entries *)

R318 == <<"3", ".", "1", "8">>

R319 == <<"3", ".", "1", "9">>

Releases == {R318, R319}

EdMin == <<"m", "i", "n">>

EdKde == <<"K", "D", "E">>

Editions == {EdMin, EdKde}

\* Arch::X86_64 / Arch::AArch64 / Arch::Riscv64, each with its Standard machine
Archs == {"X86_64", "AArch64"}

HostArchs == {"x86_64", "aarch64", "riscv64"}

\* Display of quickemu_core's Arch
ArchToString(arch) ==
    CASE arch = "X86_64" -> <<"x", "8", "6", "_", "6", "4">>
      [] arch = "AArch64" -> <<"A", "A", "r", "c", "h", "6", "4">>
      [] OTHER -> <<"R", "i", "s", "c", "-", "V", " ", "6", "4">>

Config(r, e, a) == [release |-> r, edition |-> e, arch |-> a]

ConfigUniverse ==
    {Config(r, e, a) : r \in Releases, e \in {None} \cup {Some(x) : x \in Editions}, a \in Archs}

ConfigLists == UNION {[1..n -> ConfigUniverse] : n \in 0..MaxConfigs}

OsName == <<"o", "s">>

Alpine ==
    [name |-> <<"a", "l", "p", "i", "n", "e">>,
     releases |-> <<Config(R319, None, "X86_64"),
                    Config(R319, None, "AArch64"),
                    Config(R318, None, "X86_64")>>]

Spins ==
    [name |-> <<"s", "p", "i", "n">>,
     releases |-> <<Config(R319, Some(EdMin), "X86_64"),
                    Config(R319, Some(EdKde), "X86_64"),
                    Config(R318, Some(EdKde), "AArch64"),
                    Config(R318, None, "X86_64")>>]

\* an OS whose two releases are built for different architectures
Ports ==
    [name |-> <<"p", "o", "r", "t">>,
     releases |-> <<Config(R318, None, "AArch64"),
                    Config(R319, None, "X86_64")>>]

\* an OS whose newer release needs an edition and whose older release has none
Mixed ==
    [name |-> <<"m", "i", "x">>,
     releases |-> <<Config(R318, None, "X86_64"),
                    Config(R319, Some(EdMin), "X86_64")>>]

NamedOsList == {Alpine, Spins, Ports, Mixed}

OsList == {[name |-> OsName, releases |-> l] : l \in ConfigLists} \cup NamedOsList

-----------------------------------------------------------------------------
(* The file system seen by can_go_next, and the names a user can type *)

Slash == "/"

DirVms == <<"/", "v", "m", "s">>

DirGone == <<"/", "g", "o", "n", "e">>

Dirs == {DirVms, DirGone}

NameVm == <<"v", "m">>

NameOld == <<"o", "l", "d">>

NameNested == <<"a", "/", "b">>

TypedNames == {<<>>, NameVm, NameOld, NameNested}

\* PathBuf::join for a relative or absolute second part
Join(dir, name) ==
    IF name # <<>> /\ Head(name) = Slash THEN name
    ELSE IF dir # <<>> /\ dir[Len(dir)] = Slash THEN dir \o name
    ELSE dir \o <<Slash>> \o name

\* the entries that exist on disk: the directory /vms, a VM "old" in it, /vms/a with b in it,
\* and a VM that already has alpine's default name for 3.18 on x86_64
ExistingPaths ==
    {DirVms,
     Join(DirVms, NameOld),
     Join(DirVms, <<"a">>),
     Join(DirVms, NameNested),
     Join(DirVms, <<"a","l","p","i","n","e","-","3",".","1","8","-","x","8","6","_","6","4">>)}

\* Path::exists; the path of a directory with a trailing separator is that directory
Exists(path) ==
    \/ path \in ExistingPaths
    \/ path # <<>> /\ path[Len(path)] = Slash /\ SubSeq(path, 1, Len(path) - 1) \in ExistingPaths

-----------------------------------------------------------------------------
(* SelectableComboBox *)

new_empty == [entries |-> <<>>, selected |-> None]

try_select(box, v) ==
    IF Contains(box.entries, v) THEN [box EXCEPT !.selected = Some(v)] ELSE box

select(box, sel) == [box EXCEPT !.selected = sel]

\* set_values without the clearing of a selection that is no longer offered
set_values_keeps_selection(box, new_entries) ==
    [entries |-> new_entries, selected |-> box.selected]

\* set_values with the condition inverted: clears a selection that is still offered
set_values_inverted(box, new_entries) ==
    [entries |-> new_entries,
     selected |-> IF IsSome(box.selected) /\ Contains(new_entries, box.selected[1])
                  THEN None
                  ELSE box.selected]

set_values(box, new_entries) ==
    [entries |-> new_entries,
     selected |-> IF IsSome(box.selected) /\ ~Contains(new_entries, box.selected[1])
                  THEN None
                  ELSE box.selected]

is_empty(box) == box.entries = <<>>

-----------------------------------------------------------------------------
(* OptionSelection *)

\* Option::is_none_or(|x| x == v)
is_none_or_eq(sel, v) == sel = None \/ sel[1] = v

\* the iterator map(f) of the configs that pass a filter
Project(configs, f(_)) == [i \in 1..Len(configs) |-> f(configs[i])]

\* refresh_releases with the edition condition of its filter left out
refresh_releases_by_arch_only(o) ==
    LET kept == SelectSeq(o.selected_os.releases,
                    LAMBDA c : is_none_or_eq(o.arch_list.selected, c.arch))
        releases == Unique(Project(kept, LAMBDA c : c.release))
    IN  [o EXCEPT !.release_list = set_values(o.release_list, releases)]

refresh_releases(o) ==
    LET kept == SelectSeq(o.selected_os.releases,
                    LAMBDA c : /\ is_none_or_eq(o.arch_list.selected, c.arch)
                               /\ (o.edition_list.selected = None
                                   \/ o.edition_list.selected = c.edition))
        releases == Unique(Project(kept, LAMBDA c : c.release))
    IN  [o EXCEPT !.release_list = set_values(o.release_list, releases)]

refresh_editions(o) ==
    LET kept == SelectSeq(o.selected_os.releases,
                    LAMBDA c : /\ is_none_or_eq(o.arch_list.selected, c.arch)
                               /\ is_none_or_eq(o.release_list.selected, c.release))
        \* filter_map: the configs without an edition contribute nothing
        with_edition == SelectSeq(kept, LAMBDA c : IsSome(c.edition))
        editions == Unique(Project(with_edition, LAMBDA c : c.edition[1]))
    IN  [o EXCEPT !.edition_list = set_values(o.edition_list, editions)]

refresh_architectures(o) ==
    LET kept == SelectSeq(o.selected_os.releases,
                    LAMBDA c : /\ is_none_or_eq(o.release_list.selected, c.release)
                               /\ (o.edition_list.selected = None
                                   \/ o.edition_list.selected = c.edition))
        architectures == Unique(Project(kept, LAMBDA c : c.arch))
    IN  [o EXCEPT !.arch_list = set_values(o.arch_list, architectures)]

preferred_arch(host) ==
    CASE host = "aarch64" -> "AArch64"
      [] host = "riscv64" -> "Riscv64"
      [] OTHER -> "X86_64"

\* snake_case_arch without the lower-casing of its map
snake_case_arch_keeps_case(arch) ==
    LET mapped == Project(ArchToString(arch), LAMBDA c : IF c = " " THEN "_" ELSE c)
    IN  SelectSeq(mapped, LAMBDA c : is_alphanumeric(c) \/ c = "_")

snake_case_arch(arch) ==
    LET mapped == Project(ArchToString(arch),
                          LAMBDA c : IF c = " " THEN "_" ELSE to_ascii_lowercase(c))
    IN  SelectSeq(mapped, LAMBDA c : is_alphanumeric(c) \/ c = "_")

default_vm_name(os, release, edition, arch) ==
    os.name \o <<"-">> \o release
        \o (IF IsSome(edition) THEN <<"-">> \o edition[1] ELSE <<>>)
        \o <<"-">> \o snake_case_arch(arch)

\* set_default_vm_name without the no_editions case of its match guard
set_default_vm_name_needs_edition(o) ==
    [o EXCEPT !.default_vm_name =
        IF /\ IsSome(o.release_list.selected)
           /\ IsSome(o.arch_list.selected)
           /\ IsSome(o.edition_list.selected)
        THEN Some(default_vm_name(o.selected_os, o.release_list.selected[1],
                                  o.edition_list.selected, o.arch_list.selected[1]))
        ELSE None]

\* set_default_vm_name without the edition condition of its match guard
set_default_vm_name_ignores_editions(o) ==
    [o EXCEPT !.default_vm_name =
        IF IsSome(o.release_list.selected) /\ IsSome(o.arch_list.selected)
        THEN Some(default_vm_name(o.selected_os, o.release_list.selected[1],
                                  o.edition_list.selected, o.arch_list.selected[1]))
        ELSE None]

set_default_vm_name(o) ==
    [o EXCEPT !.default_vm_name =
        IF /\ IsSome(o.release_list.selected)
           /\ IsSome(o.arch_list.selected)
           /\ (IsSome(o.edition_list.selected) \/ is_empty(o.edition_list))
        THEN Some(default_vm_name(o.selected_os, o.release_list.selected[1],
                                  o.edition_list.selected, o.arch_list.selected[1]))
        ELSE None]

\* RECOMMENDED_CPU_CORES and RECOMMENDED_RAM of the machine the program runs on, and
\* the values the two sliders can send
RecommendedCpuCores == 2

RecommendedRam == 4

CpuChoices == {1, 2}

RamChoices == {2, 4}

OptionSelection_new(selected_os, default_vm_dir, host) ==
    LET o0 == [selected_os |-> selected_os,
               release_list |-> new_empty,
               edition_list |-> new_empty,
               arch_list |-> new_empty,
               cpu_cores |-> RecommendedCpuCores,
               ram |-> RecommendedRam,
               directory |-> default_vm_dir,
               vm_name |-> None,
               default_vm_name |-> None]
        o3 == refresh_architectures(refresh_editions(refresh_releases(o0)))
    IN  [o3 EXCEPT !.arch_list = try_select(o3.arch_list, preferred_arch(host))]

select_release(o, release) ==
    LET o1 == [o EXCEPT !.release_list = select(o.release_list, Some(release))]
    IN  set_default_vm_name(refresh_architectures(refresh_editions(o1)))

select_edition(o, edition) ==
    LET o1 == [o EXCEPT !.edition_list = select(o.edition_list, Some(edition))]
    IN  set_default_vm_name(refresh_architectures(refresh_releases(o1)))

\* select_arch without the recomputation of the default name
select_arch_keeps_name(o, arch) ==
    LET o1 == [o EXCEPT !.arch_list = select(o.arch_list, Some(arch))]
    IN  refresh_editions(refresh_releases(o1))

select_arch(o, arch) ==
    LET o1 == [o EXCEPT !.arch_list = select(o.arch_list, Some(arch))]
    IN  set_default_vm_name(refresh_editions(refresh_releases(o1)))

\* a view that lets the default name take precedence over the name typed
effective_vm_name_prefers_default(o) ==
    IF IsSome(o.default_vm_name) THEN o.default_vm_name ELSE o.vm_name

\* view: the name shown in the VM name field and passed on by the Next button
effective_vm_name(o) == IF IsSome(o.vm_name) THEN o.vm_name ELSE o.default_vm_name

\* can_go_next without the check that a default name exists
can_go_next_without_default(o, vm_name) ==
    /\ vm_name # <<>>
    /\ ~Contains(vm_name, Slash)
    /\ Exists(o.directory)
    /\ ~Exists(Join(o.directory, vm_name))

can_go_next(o, vm_name) ==
    /\ vm_name # <<>>
    /\ ~Contains(vm_name, Slash)
    /\ IsSome(o.default_vm_name)
    /\ Exists(o.directory)
    /\ ~Exists(Join(o.directory, vm_name))

\* view: whether the Next button carries StartDownloads
next_enabled(o) ==
    /\ IsSome(effective_vm_name(o))
    /\ can_go_next(o, effective_vm_name(o)[1])

\* the configs that pass to_instance's three filters
matching_configs(o) ==
    SelectSeq(o.selected_os.releases,
        LAMBDA c : /\ o.release_list.selected = Some(c.release)
                   /\ o.edition_list.selected = c.edition
                   /\ o.arch_list.selected = Some(c.arch))

\* the config lookup of to_instance: the filters run lazily, config by config, so an
\* unset release is unwrapped as soon as there is a config to test, and an unset
\* architecture as soon as a config has passed the release and edition filters
to_instance_config(o) ==
    LET configs == o.selected_os.releases
        passed == SelectSeq(configs,
                      LAMBDA c : /\ o.release_list.selected = Some(c.release)
                                 /\ o.edition_list.selected = c.edition)
    IN  IF configs # <<>> /\ o.release_list.selected = None
            THEN [tag |-> "AbortUnwrap", config |-> None]
        ELSE IF passed # <<>> /\ o.arch_list.selected = None
            THEN [tag |-> "AbortUnwrap", config |-> None]
        ELSE IF matching_configs(o) = <<>>
            THEN [tag |-> "AbortExpect", config |-> None]
        ELSE [tag |-> "Config", config |-> Some(Head(matching_configs(o)))]

\* to_instance: created tells whether QuickgetInstance::new_with_vm_name succeeded
to_instance(o, vm_name, created) ==
    LET found == to_instance_config(o)
    IN  IF found.tag # "Config" THEN [found EXCEPT !.tag = "Abort"] @@ [why |-> found.tag, vm_name |-> None]
        ELSE IF created THEN [tag |-> "Ok", config |-> found.config, why |-> "", vm_name |-> Some(vm_name)]
        ELSE [tag |-> "Err", config |-> None, why |-> "new_with_vm_name", vm_name |-> None]

-----------------------------------------------------------------------------
(* The Options page: the messages of options.rs *)

NoOutcome == [tag |-> "None", config |-> None, why |-> "", vm_name |-> None]

SelectedRelease ==
    /\ page = "Options"
    /\ \E release \in Range(options.release_list.entries) :
           options' = select_release(options, release)
    /\ UNCHANGED <<os_list, page, pending, outcome, dlvars>>

SelectedEdition ==
    /\ page = "Options"
    /\ \E edition \in Range(options.edition_list.entries) :
           options' = select_edition(options, edition)
    /\ UNCHANGED <<os_list, page, pending, outcome, dlvars>>

SelectedArch ==
    /\ page = "Options"
    /\ \E arch \in Range(options.arch_list.entries) :
           options' = select_arch(options, arch)
    /\ UNCHANGED <<os_list, page, pending, outcome, dlvars>>

\* a task returned by update: the steps it still has to run, and the messages it has
\* produced that the session has not handled yet
Job(steps, out) == [steps |-> steps, out |-> out]

Spawn(job) == jobs (+) SetToBag({job})

Replace(job, by) == (jobs (-) SetToBag({job})) (+) SetToBag({by})

\* the oldest unhandled message of job has been handled
Handled(job) ==
    IF job.steps = <<>> /\ Len(job.out) = 1
    THEN jobs (-) SetToBag({job})
    ELSE Replace(job, Job(job.steps, Tail(job.out)))

\* crate::app::Message::None
AppNone == [kind |-> "None"]

\* Message::SelectedVMDir(dir)
SelectedVMDirMsg(dir) == [kind |-> "SelectedVMDir", dir |-> dir]

\* a chooser whose empty answer is taken for an empty path
chooser_message_or_default(picked) ==
    SelectedVMDirMsg(IF picked = None THEN <<>> ELSE picked[1])

\* the closure of Task::perform(select_dir(), ..): the message for the chooser's answer
chooser_message(picked) ==
    IF picked = None THEN AppNone ELSE SelectedVMDirMsg(picked[1])

\* the directory button is pressed: update(Message::SelectVMDir) starts the chooser
SelectVMDir ==
    /\ page = "Options"
    /\ BagCardinality(jobs) < MaxJobs
    /\ jobs' = Spawn(Job(<<"select_dir">>, <<>>))
    /\ UNCHANGED <<os_list, options, page, pending, outcome, downloads, task, aborted, chan,
                   create_config_calls, emitted>>

\* select_dir() returns: the user has picked a directory, or closed the chooser
PickDirectory(job) ==
    /\ job.steps = <<"select_dir">>
    /\ \E picked \in {None} \cup {Some(dir) : dir \in Dirs} :
           jobs' = Replace(job, Job(<<>>, <<chooser_message(picked)>>))
    /\ UNCHANGED <<os_list, options, page, pending, outcome, downloads, task, aborted, chan,
                   create_config_calls, emitted>>

\* update(Message::SelectedVMDir(dir))
SelectedVMDir ==
    /\ page = "Options"
    /\ \E job \in BagToSet(jobs) :
           /\ job.out # <<>>
           /\ Head(job.out).kind = "SelectedVMDir"
           /\ options' = [options EXCEPT !.directory = Head(job.out).dir]
           /\ jobs' = Handled(job)
    /\ UNCHANGED <<os_list, page, pending, outcome, downloads, task, aborted, chan,
                   create_config_calls, emitted>>

\* the application handles Message::None: nothing changes
HandleNone(job) ==
    /\ job.out # <<>>
    /\ Head(job.out) = AppNone
    /\ jobs' = Handled(job)
    /\ UNCHANGED <<os_list, options, page, pending, outcome, downloads, task, aborted, chan,
                   create_config_calls, emitted>>

SelectedVMName ==
    /\ page = "Options"
    /\ \E name \in TypedNames : options' = [options EXCEPT !.vm_name = Some(name)]
    /\ UNCHANGED <<os_list, page, pending, outcome, dlvars>>

FinalizeVMName ==
    /\ page = "Options"
    /\ options' = IF options.vm_name = Some(<<>>)
                  THEN [options EXCEPT !.vm_name = None]
                  ELSE options
    /\ UNCHANGED <<os_list, page, pending, outcome, dlvars>>

\* view: the Next button is pressed; it emits StartDownloads(vm_name) only when enabled
PressNext ==
    /\ page = "Options"
    /\ pending = None
    /\ next_enabled(options)
    /\ pending' = Some(effective_vm_name(options)[1])
    /\ UNCHANGED <<os_list, options, page, outcome, dlvars>>

\* the session handles StartDownloads(vm_name): it resolves the selection with to_instance
StartDownloads ==
    /\ page = "Options"
    /\ pending # None
    /\ \E created \in BOOLEAN :
           /\ outcome' = to_instance(options, pending[1], created)
           /\ page' = CASE outcome'.tag = "Ok" -> "Downloading"
                        [] outcome'.tag = "Err" -> "Error"
                        [] OTHER -> "Aborted"
    /\ pending' = None
    /\ UNCHANGED <<os_list, options, dlvars>>

\* no DownloadStatus exists yet
NoDownloads ==
    /\ downloads = <<>>
    /\ task = <<>>
    /\ aborted = FALSE
    /\ chan = <<>>
    /\ jobs = EmptyBag
    /\ create_config_calls = 0
    /\ emitted = <<>>

\* the selection engine alone: OptionSelection::new for any generated OS entry, then
\* any sequence of select_release / select_edition / select_arch
Init ==
    /\ \E os \in OsList, dir \in Dirs, host \in HostArchs :
           options = OptionSelection_new(os, dir, host)
    /\ os_list = <<options.selected_os>>
    /\ page = "Options"
    /\ pending = None
    /\ outcome = NoOutcome
    /\ NoDownloads

Next ==
    \/ SelectedRelease
    \/ SelectedEdition
    \/ SelectedArch

Spec == Init /\ [][Next]_vars

\* the whole Options page for the named OS entries: selections, name and directory
\* edits, the Next button and the handling of StartDownloads
InitOptions ==
    /\ \E os \in NamedOsList, dir \in Dirs, host \in HostArchs :
           options = OptionSelection_new(os, dir, host)
    /\ os_list = <<options.selected_os>>
    /\ page = "Options"
    /\ pending = None
    /\ outcome = NoOutcome
    /\ NoDownloads

NextOptions ==
    \/ SelectedRelease
    \/ SelectedEdition
    \/ SelectedArch
    \/ SelectVMDir
    \/ \E job \in BagToSet(jobs) : PickDirectory(job)
    \/ SelectedVMDir
    \/ \E job \in BagToSet(jobs) : HandleNone(job)
    \/ SelectedVMName
    \/ FinalizeVMName
    \/ PressNext
    \/ StartDownloads

SpecOptions == InitOptions /\ [][NextOptions]_vars

\* an OS built for an architecture whose display form has a space, a hyphen and
\* upper-case letters
RiscvOs ==
    [name |-> <<"b", "s", "d">>,
     releases |-> <<Config(R319, Some(EdKde), "Riscv64"),
                    Config(R318, None, "Riscv64")>>]

\* set_default_vm_name alone: the selections are those of any one config of any OS
\* entry, as select_* leaves them when it reaches set_default_vm_name
InitName ==
    /\ \E os \in OsList \cup {RiscvOs}, dir \in Dirs :
           \E i \in 1..Len(os.releases) :
               LET c == os.releases[i]
                   o == OptionSelection_new(os, dir, "x86_64")
               IN  options = [o EXCEPT !.release_list.selected = Some(c.release),
                                       !.edition_list.selected = c.edition,
                                       !.arch_list.selected = Some(c.arch)]
    /\ os_list = <<options.selected_os>>
    /\ page = "Options"
    /\ pending = None
    /\ outcome = NoOutcome
    /\ NoDownloads

SetDefaultVMName ==
    /\ page = "Options"
    /\ options' = set_default_vm_name(options)
    /\ UNCHANGED <<os_list, page, pending, outcome, dlvars>>

NextName == SetDefaultVMName

SpecName == InitName /\ [][NextName]_vars

-----------------------------------------------------------------------------
(* Properties of the Options page *)

Offered(box) == IsSome(box.selected) => Contains(box.entries, box.selected[1])

\* the releases / editions / architectures of the configs that agree with the
\* current selections of the other two dimensions
ReleasesFor(o) ==
    {c.release : c \in {c \in Range(o.selected_os.releases) :
        /\ is_none_or_eq(o.arch_list.selected, c.arch)
        /\ (o.edition_list.selected = None \/ o.edition_list.selected = c.edition)}}

EditionsFor(o) ==
    {c.edition[1] : c \in {c \in Range(o.selected_os.releases) :
        /\ IsSome(c.edition)
        /\ is_none_or_eq(o.arch_list.selected, c.arch)
        /\ is_none_or_eq(o.release_list.selected, c.release)}}

ArchsFor(o) ==
    {c.arch : c \in {c \in Range(o.selected_os.releases) :
        /\ is_none_or_eq(o.release_list.selected, c.release)
        /\ (o.edition_list.selected = None \/ o.edition_list.selected = c.edition)}}

\* C1: every dimension's selected value, when set, is a member of that dimension's
\* last-computed candidate list.
C1_SelectedIsOffered ==
    /\ Offered(options.release_list)
    /\ Offered(options.edition_list)
    /\ Offered(options.arch_list)

\* all three dimensions hold a selection while the release list has been narrowed
C1_Witness ==
    /\ IsSome(options.release_list.selected)
    /\ IsSome(options.edition_list.selected)
    /\ IsSome(options.arch_list.selected)
    /\ Len(options.release_list.entries) = 1
    /\ Cardinality({c.release : c \in Range(options.selected_os.releases)}) = 2

\* what set_values must have done to a box whose list was recomputed in the step
ClearedIffAbsent(old, new) ==
    new.selected = IF IsSome(old.selected) /\ ~Contains(new.entries, old.selected[1])
                   THEN None
                   ELSE old.selected

\* C2: in a select* step, the selection of each of the two other dimensions is cleared
\* exactly when it is absent from that dimension's recomputed list, and kept otherwise.
C2_ClearedExactlyWhenAbsent ==
    [][/\ SelectedRelease =>
            /\ ClearedIffAbsent(options.edition_list, options'.edition_list)
            /\ ClearedIffAbsent(options.arch_list, options'.arch_list)
       /\ SelectedEdition =>
            /\ ClearedIffAbsent(options.release_list, options'.release_list)
            /\ ClearedIffAbsent(options.arch_list, options'.arch_list)
       /\ SelectedArch =>
            /\ ClearedIffAbsent(options.release_list, options'.release_list)
            /\ ClearedIffAbsent(options.edition_list, options'.edition_list)]_vars

\* select_release has cleared a selected architecture: the edition list is empty,
\* filtered by an architecture that is selected no more, although the release has editions
C2_Witness ==
    /\ IsSome(options.release_list.selected)
    /\ options.arch_list.selected = None
    /\ options.edition_list.selected = None
    /\ options.edition_list.entries = <<>>
    /\ \E c \in Range(options.selected_os.releases) :
           c.release = options.release_list.selected[1] /\ IsSome(c.edition)

\* C3: the candidate list of each dimension is a subset of the projection of the
\* configs filtered by the current selections of the other two dimensions.
C3_ListsWithinFilteredProjection ==
    page = "Options" =>
        /\ Range(options.release_list.entries) \subseteq ReleasesFor(options)
        /\ Range(options.edition_list.entries) \subseteq EditionsFor(options)
        /\ Range(options.arch_list.entries) \subseteq ArchsFor(options)

\* C4: a default name is present only if release and architecture are selected and
\* either an edition is selected or no config of that release and architecture has one.
C4_DefaultNameOnlyWhenSpecified ==
    IsSome(options.default_vm_name) =>
        /\ IsSome(options.release_list.selected)
        /\ IsSome(options.arch_list.selected)
        /\ \/ IsSome(options.edition_list.selected)
           \/ \A c \in Range(options.selected_os.releases) :
                  (c.release = options.release_list.selected[1]
                      /\ c.arch = options.arch_list.selected[1]) => c.edition = None

\* a default name without an edition, for an OS that has editions on other configs
C4_Witness ==
    /\ IsSome(options.default_vm_name)
    /\ options.edition_list.selected = None
    /\ \E c \in Range(options.selected_os.releases) : IsSome(c.edition)

\* C5: to_instance never aborts: it returns an error when no config matches the three
\* selections, and an instance built from a matching config otherwise.
C5_ResolveReturnsErrorNeverAborts ==
    /\ outcome.tag # "Abort"
    /\ (outcome.tag \in {"Ok", "Err"} /\ matching_configs(options) = <<>>) => outcome.tag = "Err"
    /\ outcome.tag = "Ok" => Contains(matching_configs(options), outcome.config[1])

\* C6: a StartDownloads message is produced only for the effective name, and only if
\* that name is non-empty and has no path separator, a default name exists, the
\* directory exists and nothing exists at directory/name.
C6_CommitOnlyWhenAllowed ==
    [][(pending = None /\ pending' # None) =>
          /\ options' = options
          /\ pending' = effective_vm_name(options)
          /\ pending'[1] # <<>>
          /\ Slash \notin Range(pending'[1])
          /\ options.default_vm_name # None
          /\ options.directory \in ExistingPaths
          /\ Join(options.directory, pending'[1]) \notin ExistingPaths]_vars

\* a commit message carrying a name the user typed
C6_Witness ==
    /\ pending = Some(NameVm)
    /\ options.vm_name = Some(NameVm)

-----------------------------------------------------------------------------
(* The download page: DownloadStatus, its Download tasks and their messages *)

\* the byte lengths a chunk of the body can have
ChunkSizes == {1, 2}

\* response.content_length().unwrap_or(0)
ContentLengths == {0, 3}

Msg(kind, id, size, to) == [kind |-> kind, id |-> id, size |-> size, page |-> to]

\* DownloadMessage, wrapped in Message::Specific with the download's id
GotTotalSize(id, size) == Msg("GotTotalSize", id, size, "")

AddedChunk(id, size) == Msg("AddedChunk", id, size, "")

Done(id) == Msg("Done", id, 0, "")

DownloadError(id) == Msg("Error", id, 0, "")

\* the messages of the session: super::Message
ChangePage(to) == Msg("ChangePage", 0, 0, to)

SessionError(id) == Msg("SessionError", id, 0, "")

FinalizedConfigPath == Msg("FinalizedConfigPath", 0, 0, "")

\* super::Message::Error(format!("Error creating config: {e}"))
ConfigError == Msg("SessionError", -1, 0, "")

\* Page::Error(e) for the text of a session error: that of a transfer, or that of
\* create_config
ErrorPage(msg) ==
    CASE msg = ConfigError -> "Error creating config"
      [] msg.id = -2 -> "Error fetching catalog"
      [] OTHER -> "Error"

\* Task::perform(async move { msg }, ..): the future is ready at once, its message is
\* on its way to update
Perform(msg) == Job(<<>>, <<msg>>)

\* the finalize task returned alone, not chained after finalize_page
FinalizeUnchained == Job(<<"create_config">>, <<>>)

\* finalize_page.chain(finalize): ChangePage(Finalizing) is on its way, then the
\* finalize future runs create_config
FinalizeChain == Job(<<"create_config">>, <<ChangePage("Finalizing")>>)

\* QGDownload.path: the destination files the descriptors of an instance can name
Destinations == {"disk.img", "boot.iso"}

\* Download::new: the Download half of its result
Download_new == [current_size |-> 0, total_size |-> None, done |-> FALSE]

\* DownloadStatus::new for an instance with n downloads, ids 0..n-1
DownloadStatus_new(n) == [id \in 0..(n - 1) |-> Download_new]

\* Task::abortable(Task::batch(tasks)): the batch is polled until its handle is aborted
stream_polled == ~aborted

\* the task of download id produces msg, which is forwarded to the runtime
Emit(id, msg) ==
    /\ chan' = [chan EXCEPT ![id] = Append(@, msg)]
    /\ emitted' = [emitted EXCEPT ![id] = Append(@, msg)]

\* spawn_request fails (request.send() or File::create): the stream is once(Err(e))
RequestFails(id) ==
    /\ stream_polled
    /\ task[id].pc = "Request"
    /\ task' = [task EXCEPT ![id].pc = "Ended"]
    /\ Emit(id, DownloadError(id))
    /\ UNCHANGED <<os_list, options, page, pending, outcome, downloads, aborted, jobs,
                   create_config_calls>>

\* the status codes a server answers with: send() returns Ok for any of them
HttpStatuses == {200, 404}

\* StatusCode::is_success
is_success(status) == status \in 200..299

\* spawn_request succeeds: a response has arrived and the file is created; the stream
\* starts with GotTotalSize
RequestSucceeds(id) ==
    /\ stream_polled
    /\ task[id].pc = "Request"
    /\ \E status \in HttpStatuses :
           task' = [task EXCEPT ![id].pc = "Stream", ![id].status = status]
    /\ \E size \in ContentLengths : Emit(id, GotTotalSize(id, size))
    /\ UNCHANGED <<os_list, options, page, pending, outcome, downloads, aborted, jobs,
                   create_config_calls>>

RECURSIVE SumItems(_)
SumItems(ids) ==
    IF ids = {} THEN 0
    ELSE LET id == CHOOSE i \in ids : TRUE
         IN task[id].items + SumItems(ids \ {id})

\* response.bytes_stream() has another item: the bodies of one run hold at most
\* MaxChunks items between them
more_items == SumItems(DOMAIN task) < MaxChunks

\* dl_stream: a chunk arrives and is written to the file
ChunkWritten(id) ==
    /\ stream_polled
    /\ task[id].pc = "Stream"
    /\ more_items
    /\ task' = [task EXCEPT ![id].items = @ + 1]
    /\ \E size \in ChunkSizes : Emit(id, AddedChunk(id, size))
    /\ UNCHANGED <<os_list, options, page, pending, outcome, downloads, aborted, jobs,
                   create_config_calls>>

\* dl_stream: the body yields an error, or write_all fails; map() turns the item into
\* an Err and the stream goes on
ChunkFails(id) ==
    /\ stream_polled
    /\ task[id].pc = "Stream"
    /\ more_items
    /\ task' = [task EXCEPT ![id].items = @ + 1]
    /\ Emit(id, DownloadError(id))
    /\ UNCHANGED <<os_list, options, page, pending, outcome, downloads, aborted, jobs,
                   create_config_calls>>

\* dl_stream is exhausted: the chained once(Done) is polled
StreamEnds(id) ==
    /\ stream_polled
    /\ task[id].pc = "Stream"
    /\ task' = [task EXCEPT ![id].pc = "Ended"]
    /\ Emit(id, Done(id))
    /\ UNCHANGED <<os_list, options, page, pending, outcome, downloads, aborted, jobs,
                   create_config_calls>>

\* a fold that takes the size of an AddedChunk for the size received so far
fold_cumulative(dls, msg) ==
    CASE msg.kind = "Done" -> [dls EXCEPT ![msg.id].done = TRUE]
      [] msg.kind = "GotTotalSize" -> [dls EXCEPT ![msg.id].total_size = Some(msg.size)]
      [] msg.kind = "AddedChunk" -> [dls EXCEPT ![msg.id].current_size = msg.size]
      [] OTHER -> dls

\* a fold whose GotTotalSize arm also starts the byte count again
fold_size_resets_progress(dls, msg) ==
    CASE msg.kind = "Done" -> [dls EXCEPT ![msg.id].done = TRUE]
      [] msg.kind = "GotTotalSize" ->
             [dls EXCEPT ![msg.id].total_size = Some(msg.size), ![msg.id].current_size = 0]
      [] msg.kind = "AddedChunk" -> [dls EXCEPT ![msg.id].current_size = @ + msg.size]
      [] OTHER -> dls

\* a fold that updates the first download whatever the id of the event
fold_first_download(dls, msg) ==
    CASE msg.kind = "Done" -> [dls EXCEPT ![0].done = TRUE]
      [] msg.kind = "GotTotalSize" -> [dls EXCEPT ![0].total_size = Some(msg.size)]
      [] msg.kind = "AddedChunk" -> [dls EXCEPT ![0].current_size = @ + msg.size]
      [] OTHER -> dls

\* DownloadStatus::update(Message::Specific { id, msg }): the new downloads
fold(dls, msg) ==
    CASE msg.kind = "Done" -> [dls EXCEPT ![msg.id].done = TRUE]
      [] msg.kind = "GotTotalSize" -> [dls EXCEPT ![msg.id].total_size = Some(msg.size)]
      [] msg.kind = "AddedChunk" -> [dls EXCEPT ![msg.id].current_size = @ + msg.size]
      [] OTHER -> dls

\* update with only the first transfer error of a session passed on
HandleSpecific_first_error_only(id) ==
    /\ chan[id] # <<>>
    /\ page = "Downloading"
    /\ chan' = [chan EXCEPT ![id] = Tail(@)]
    /\ downloads' = fold(downloads, Head(chan[id]))
    /\ jobs' = IF Head(chan[id]).kind = "Error" /\ jobs = EmptyBag
               THEN Spawn(Perform(SessionError(id)))
               ELSE jobs
    /\ UNCHANGED <<os_list, options, page, pending, outcome, task, aborted,
                   create_config_calls, emitted>>

\* the oldest unhandled event of download id reaches DownloadStatus::update
HandleSpecific(id) ==
    /\ chan[id] # <<>>
    /\ page = "Downloading"
    /\ chan' = [chan EXCEPT ![id] = Tail(@)]
    /\ downloads' = fold(downloads, Head(chan[id]))
    /\ jobs' = IF Head(chan[id]).kind = "Error"
               THEN Spawn(Perform(SessionError(id)))
               ELSE jobs
    /\ UNCHANGED <<os_list, options, page, pending, outcome, task, aborted,
                   create_config_calls, emitted>>

\* a download event that arrives when the page holds no DownloadStatus any more
DropSpecific(id) ==
    /\ chan[id] # <<>>
    /\ page # "Downloading"
    /\ chan' = [chan EXCEPT ![id] = Tail(@)]
    /\ UNCHANGED <<os_list, options, page, pending, outcome, downloads, task, aborted, jobs,
                   create_config_calls, emitted>>

\* view: the Next button of the download page carries Message::Finalize
finalize_enabled == \A id \in DOMAIN downloads : downloads[id].done

\* Cancel is pressed: DownloadStatus::update(Message::CancelDownloads)
CancelDownloads ==
    /\ page = "Downloading"
    /\ BagCardinality(jobs) < MaxJobs
    /\ aborted' = TRUE
    /\ jobs' = Spawn(Perform(ChangePage("SelectOS")))
    /\ UNCHANGED <<os_list, options, page, pending, outcome, downloads, task, chan,
                   create_config_calls, emitted>>

\* Next is pressed: DownloadStatus::update(Message::Finalize)
Finalize ==
    /\ page = "Downloading"
    /\ finalize_enabled
    /\ BagCardinality(jobs) < MaxJobs
    /\ jobs' = Spawn(FinalizeChain)
    /\ UNCHANGED <<os_list, options, page, pending, outcome, downloads, task, aborted, chan,
                   create_config_calls, emitted>>

\* the finalize future runs create_config on a blocking thread and reports its result
CreateConfig(job) ==
    /\ job.steps # <<>>
    /\ create_config_calls' = create_config_calls + 1
    /\ \E ok \in BOOLEAN :
           jobs' = Replace(job, Job(Tail(job.steps),
                                    Append(job.out, IF ok THEN FinalizedConfigPath
                                                    ELSE ConfigError)))
    /\ UNCHANGED <<os_list, options, page, pending, outcome, downloads, task, aborted, chan,
                   emitted>>

\* State::update for the oldest unhandled message of a job, when it is
\* Message::Error(e) or Message::ChangePage(page)
HandleSessionMessage(job) ==
    /\ job.out # <<>>
    /\ Head(job.out).kind \in {"ChangePage", "SessionError"}
    /\ page' = IF Head(job.out).kind = "ChangePage" THEN Head(job.out).page
               ELSE ErrorPage(Head(job.out))
    /\ jobs' = Handled(job)
    /\ UNCHANGED <<os_list, options, pending, outcome, downloads, task, aborted, chan,
                   create_config_calls, emitted>>

\* the session handles Message::FinalizedConfigPath(path): the session is complete
HandleFinalizedConfigPath(job) ==
    /\ job.out # <<>>
    /\ Head(job.out).kind = "FinalizedConfigPath"
    /\ page' = "Complete"
    /\ jobs' = Handled(job)
    /\ UNCHANGED <<os_list, options, pending, outcome, downloads, task, aborted, chan,
                   create_config_calls, emitted>>

\* the state DownloadStatus::new returns, for an instance with up to MaxDownloads downloads
InitDownload ==
    /\ options = OptionSelection_new(Alpine, DirVms, "x86_64")
    /\ os_list = <<Alpine>>
    /\ pending = None
    /\ outcome = NoOutcome
    /\ page = "Downloading"
    /\ \E n \in 0..MaxDownloads :
           /\ downloads = DownloadStatus_new(n)
           /\ \E path \in [0..(n - 1) -> Destinations] :
                  task = [id \in 0..(n - 1) |->
                              [pc |-> "Request", items |-> 0, path |-> path[id], status |-> 0]]
           /\ chan = [id \in 0..(n - 1) |-> <<>>]
           /\ emitted = [id \in 0..(n - 1) |-> <<>>]
    /\ aborted = FALSE
    /\ jobs = EmptyBag
    /\ create_config_calls = 0

NextDownload ==
    \/ \E id \in DOMAIN task : RequestFails(id)
    \/ \E id \in DOMAIN task : RequestSucceeds(id)
    \/ \E id \in DOMAIN task : ChunkWritten(id)
    \/ \E id \in DOMAIN task : ChunkFails(id)
    \/ \E id \in DOMAIN task : StreamEnds(id)
    \/ \E id \in DOMAIN chan : HandleSpecific(id)
    \/ \E id \in DOMAIN chan : DropSpecific(id)
    \/ CancelDownloads
    \/ Finalize
    \/ \E job \in BagToSet(jobs) : CreateConfig(job)
    \/ \E job \in BagToSet(jobs) : HandleSessionMessage(job)
    \/ \E job \in BagToSet(jobs) : HandleFinalizedConfigPath(job)

SpecDownload == InitDownload /\ [][NextDownload]_vars

\* the transfers alone: the tasks DownloadStatus::new started produce their events and
\* update handles them; no button is pressed
NextTransfer ==
    \/ \E id \in DOMAIN task : RequestFails(id)
    \/ \E id \in DOMAIN task : RequestSucceeds(id)
    \/ \E id \in DOMAIN task : ChunkWritten(id)
    \/ \E id \in DOMAIN task : ChunkFails(id)
    \/ \E id \in DOMAIN task : StreamEnds(id)
    \/ \E id \in DOMAIN chan : HandleSpecific(id)

SpecTransfer == InitDownload /\ [][NextTransfer]_vars

\* list holds, once each and in the order in which the catalog first shows them, the
\* key(c) of the configs c of the OS that satisfy match(c)
IsFirstSeenList(list, configs, match(_), key(_)) ==
    LET first(v) == CHOOSE i \in 1..Len(configs) :
                        /\ match(configs[i]) /\ key(configs[i]) = v
                        /\ \A j \in 1..(i - 1) : ~(match(configs[j]) /\ key(configs[j]) = v)
    IN  /\ Range(list) = {key(configs[i]) : i \in {j \in 1..Len(configs) : match(configs[j])}}
        /\ \A a, b \in 1..Len(list) : a < b => first(list[a]) < first(list[b])

ReleaseListFor(list, configs, arch, edition) ==
    IsFirstSeenList(list, configs,
                    LAMBDA c : is_none_or_eq(arch, c.arch) /\ (edition = None \/ edition = c.edition),
                    LAMBDA c : c.release)

EditionListFor(list, configs, arch, release) ==
    IsFirstSeenList(list, configs,
                    LAMBDA c : /\ IsSome(c.edition)
                               /\ is_none_or_eq(arch, c.arch)
                               /\ is_none_or_eq(release, c.release),
                    LAMBDA c : c.edition[1])

ArchListFor(list, configs, release, edition) ==
    IsFirstSeenList(list, configs,
                    LAMBDA c : /\ is_none_or_eq(release, c.release)
                               /\ (edition = None \/ edition = c.edition),
                    LAMBDA c : c.arch)

\* the normalized label of every architecture
ArchLabel(arch) ==
    CASE arch = "X86_64" -> <<"x", "8", "6", "_", "6", "4">>
      [] arch = "AArch64" -> <<"a", "a", "r", "c", "h", "6", "4">>
      [] OTHER -> <<"r", "i", "s", "c", "v", "_", "6", "4">>

\* C15: a default name is the OS name, the release, the edition when one is selected
\* and the architecture label, in that order and joined by "-"; the label is fixed by
\* the architecture and holds only lower-case letters, digits and underscores
C15_DefaultNameDerivation ==
    IsSome(options.default_vm_name) =>
        LET name == options.default_vm_name[1]
            edition == options.edition_list.selected
            front == options.selected_os.name \o <<"-">> \o options.release_list.selected[1]
                        \o (IF IsSome(edition) THEN <<"-">> \o edition[1] ELSE <<>>)
                        \o <<"-">>
            label == SubSeq(name, Len(front) + 1, Len(name))
        IN  /\ Len(name) > Len(front)
            /\ SubSeq(name, 1, Len(front)) = front
            /\ label = ArchLabel(options.arch_list.selected[1])
            /\ Range(label) \subseteq Range(LowerCase) \cup Digits \cup {"_"}

\* a default name with an edition, for the architecture displayed as "Risc-V 64"
C15_Witness ==
    /\ IsSome(options.default_vm_name)
    /\ IsSome(options.edition_list.selected)
    /\ options.arch_list.selected = Some("Riscv64")

\* C17: the directory changes only when a SelectedVMDir message carrying a path the
\* chooser returned is handled, and then to that path; the chooser returning nothing,
\* and the handling of the None message it leads to, leave the whole selection alone
C17_DirectoryChangesOnlyOnPick ==
    [][/\ options'.directory # options.directory =>
              /\ options'.directory \in Dirs
              /\ \E job \in BagToSet(jobs) :
                     /\ job.out = <<SelectedVMDirMsg(options'.directory)>>
                     /\ jobs' = Handled(job)
              /\ options' = [options EXCEPT !.directory = options'.directory]
       /\ \A job \in BagToSet(jobs) :
              (PickDirectory(job) \/ HandleNone(job)) => options' = options]_vars

\* the chooser has been closed without a pick, after an earlier pick
C17_Witness ==
    /\ options.directory = DirGone
    /\ Job(<<>>, <<AppNone>>) \in BagToSet(jobs)

AlpineDefault318 ==
    <<"a","l","p","i","n","e","-","3",".","1","8","-","x","8","6","_","6","4">>

\* C14: every list a select* step recomputes holds, once each and in first-seen
\* catalog order, the values of the configs that match the selections of the other
\* two dimensions as they stand when the list is computed; for Alpine, selecting
\* X86_64 gives the releases [3.19, 3.18] and then selecting 3.18 gives the
\* architectures [X86_64] and the default name alpine-3.18-x86_64
C14_ListsAreFilteredProjections ==
    [][LET cfgs == options.selected_os.releases
           rel == options.release_list.selected
           ed == options.edition_list.selected
           ar == options.arch_list.selected
           rel2 == options'.release_list.selected
           ed2 == options'.edition_list.selected
           ar2 == options'.arch_list.selected
           alpine == options.selected_os = Alpine
       IN  /\ SelectedRelease =>
                /\ EditionListFor(options'.edition_list.entries, cfgs, ar, rel2)
                /\ ArchListFor(options'.arch_list.entries, cfgs, rel2, ed2)
                /\ (alpine /\ rel2 = Some(R318) /\ ar = Some("X86_64")) =>
                       /\ options'.arch_list.entries = <<"X86_64">>
                       /\ options'.default_vm_name = Some(AlpineDefault318)
           /\ SelectedEdition =>
                /\ ReleaseListFor(options'.release_list.entries, cfgs, ar, ed2)
                /\ ArchListFor(options'.arch_list.entries, cfgs, rel2, ed2)
           /\ SelectedArch =>
                /\ ReleaseListFor(options'.release_list.entries, cfgs, ar2, ed)
                /\ EditionListFor(options'.edition_list.entries, cfgs, ar2, rel2)
                /\ (alpine /\ ar2 = Some("X86_64")) =>
                       options'.release_list.entries = <<R319, R318>>]_vars

\* C19: when a select* step is over, the lists of the other two dimensions are the
\* filtered projections for the selections as the step leaves them
C19_ListsMatchSelectionsAfterCall ==
    [][LET cfgs == options.selected_os.releases
           rel2 == options'.release_list.selected
           ed2 == options'.edition_list.selected
           ar2 == options'.arch_list.selected
       IN  /\ SelectedRelease =>
                /\ EditionListFor(options'.edition_list.entries, cfgs, ar2, rel2)
                /\ ArchListFor(options'.arch_list.entries, cfgs, rel2, ed2)
           /\ SelectedEdition =>
                /\ ReleaseListFor(options'.release_list.entries, cfgs, ar2, ed2)
                /\ ArchListFor(options'.arch_list.entries, cfgs, rel2, ed2)
           /\ SelectedArch =>
                /\ ReleaseListFor(options'.release_list.entries, cfgs, ar2, ed2)
                /\ EditionListFor(options'.edition_list.entries, cfgs, ar2, rel2)]_vars

\* the selection names one release and one architecture, and an edition wherever the
\* configs of that release and architecture have one
fully_specified(o) ==
    /\ IsSome(o.release_list.selected)
    /\ IsSome(o.arch_list.selected)
    /\ \/ IsSome(o.edition_list.selected)
       \/ \A c \in Range(o.selected_os.releases) :
              (c.release = o.release_list.selected[1] /\ c.arch = o.arch_list.selected[1])
                  => c.edition = None

\* C20: in every selection state, the one new() returns included, the default name is
\* the derived name of the current selections when they are fully specified, and is
\* unset otherwise
C20_DefaultNameNeverStale ==
    page = "Options" =>
        options.default_vm_name =
            IF fully_specified(options)
            THEN Some(default_vm_name(options.selected_os,
                                      options.release_list.selected[1],
                                      options.edition_list.selected,
                                      options.arch_list.selected[1]))
            ELSE None

\* a name with an edition in it, for the architecture new() pre-selected
C20_Witness ==
    /\ page = "Options"
    /\ IsSome(options.default_vm_name)
    /\ IsSome(options.edition_list.selected)
    /\ options.arch_list.selected = Some("X86_64")

\* C21: whenever a default name is present, some config of the OS has the selected
\* release, the selected edition (none when none is selected) and the selected
\* architecture, so the lookup of to_instance finds a config and unwraps nothing unset
C21_DefaultNameImpliesMatchingConfig ==
    IsSome(options.default_vm_name) =>
        /\ IsSome(options.release_list.selected)
        /\ IsSome(options.arch_list.selected)
        /\ \E c \in Range(options.selected_os.releases) :
               /\ c.release = options.release_list.selected[1]
               /\ c.edition = options.edition_list.selected
               /\ c.arch = options.arch_list.selected[1]
        /\ to_instance_config(options).tag = "Config"

\* to_instance has resolved a selection that has a default name and no edition
C21_Witness ==
    /\ outcome.tag = "Ok"
    /\ IsSome(options.default_vm_name)
    /\ options.edition_list.selected = None
    /\ outcome.config = Some(Head(matching_configs(options)))

\* C22: the events of one transfer are a single Error when the request or the file
\* creation fails; otherwise one GotTotalSize comes first, AddedChunk events follow,
\* and at most one terminal event (Done or Error) is produced, as the last event
C22_TransferEventOrder ==
    \A id \in DOMAIN emitted :
        LET events == emitted[id]
            terminal(i) == events[i].kind \in {"Done", "Error"}
        IN  events # <<>> =>
                /\ Head(events).kind \in {"GotTotalSize", "Error"}
                /\ Head(events).kind = "Error" => Len(events) = 1
                /\ \A i \in 2..Len(events) : events[i].kind # "GotTotalSize"
                /\ \A i \in 1..Len(events) : terminal(i) => i = Len(events)

\* C28: for an OS with at least one config, whenever the default name is unset some
\* dimension without a selection offers at least one candidate
C28_NoDeadEnd ==
    (page = "Options" /\ options.selected_os.releases # <<>>
        /\ options.default_vm_name = None) =>
        \/ options.release_list.selected = None /\ options.release_list.entries # <<>>
        \/ options.edition_list.selected = None /\ options.edition_list.entries # <<>>
        \/ options.arch_list.selected = None /\ options.arch_list.entries # <<>>

\* only the architecture is left to choose: no release is selected and none is offered
C28_Witness ==
    /\ page = "Options"
    /\ options.default_vm_name = None
    /\ options.release_list.selected = None
    /\ options.release_list.entries = <<>>
    /\ IsSome(options.edition_list.selected)
    /\ options.arch_list.selected = None
    /\ options.arch_list.entries # <<>>

\* C29: the name the Next button passes on is the name the user typed when there is
\* one and the default name otherwise; select_release, select_edition and select_arch
\* leave the typed name alone; FinalizeVMName unsets the typed name exactly when it is
\* empty, changes nothing else, and the default name is then the effective name
C29_EffectiveVMName ==
    [][/\ (pending = None /\ pending' # None) =>
              pending' = IF options.vm_name # None THEN options.vm_name
                         ELSE options.default_vm_name
       /\ (SelectedRelease \/ SelectedEdition \/ SelectedArch) =>
              options'.vm_name = options.vm_name
       /\ FinalizeVMName =>
              /\ options'.vm_name = IF options.vm_name = Some(<<>>) THEN None
                                    ELSE options.vm_name
              /\ options' = [options EXCEPT !.vm_name = options'.vm_name]
              /\ options.vm_name = Some(<<>>) =>
                     effective_vm_name(options') = options.default_vm_name]_vars

\* the Next button has passed on a typed name that differs from the default name
C29_Witness ==
    /\ pending = Some(NameVm)
    /\ IsSome(options.default_vm_name)
    /\ options.default_vm_name # Some(NameVm)
    /\ IsSome(options.edition_list.selected)

\* the Alpine scenario has run: X86_64, then 3.18
C14_Witness ==
    /\ options.selected_os = Alpine
    /\ options.release_list.selected = Some(R318)
    /\ options.arch_list.selected = Some("X86_64")
    /\ options.release_list.entries = <<R319, R318>>
    /\ options.arch_list.entries = <<"X86_64">>
    /\ options.default_vm_name = Some(AlpineDefault318)

-----------------------------------------------------------------------------
(* DownloadStatus::update alone: the events of every download are already on their
   way, and update handles them in any interleaving *)

\* the items the body stream of download 0 can yield
StreamItems == {AddedChunk(0, size) : size \in ChunkSizes} \cup {DownloadError(0)}

ItemSeqs == UNION {[1..k -> StreamItems] : k \in 0..MaxChunks}

\* the event sequences the task of download 0 can have produced so far
StreamPrefixes ==
    {<<>>, <<DownloadError(0)>>}
    \cup {<<GotTotalSize(0, size)>> \o items \o last :
              size \in ContentLengths, items \in ItemSeqs, last \in {<<>>, <<Done(0)>>}}

\* the same events, produced by the task of download id
Stamp(events, id) == [i \in 1..Len(events) |-> [events[i] EXCEPT !.id = id]]

\* where a task that has produced events stands
task_after(events) ==
    LET last == events[Len(events)]
        ended == events # <<>> /\ (last.kind = "Done" \/ events = <<DownloadError(0)>>)
    IN [pc |-> IF events = <<>> THEN "Request" ELSE IF ended THEN "Ended" ELSE "Stream",
        items |-> Cardinality({i \in 2..Len(events) : events[i].kind # "Done"}),
        path |-> "disk.img",
        status |-> IF events # <<>> /\ Head(events).kind = "GotTotalSize" THEN 200 ELSE 0]

InitFold ==
    /\ options = OptionSelection_new(Alpine, DirVms, "x86_64")
    /\ os_list = <<Alpine>>
    /\ pending = None
    /\ outcome = NoOutcome
    /\ page = "Downloading"
    /\ \E n \in 0..MaxDownloads :
           \E sent \in [0..(n - 1) -> StreamPrefixes] :
               /\ downloads = DownloadStatus_new(n)
               /\ task = [id \in 0..(n - 1) |->
                              [task_after(sent[id]) EXCEPT
                                   !.path = IF id % 2 = 0 THEN "disk.img" ELSE "boot.iso"]]
               /\ chan = [id \in 0..(n - 1) |-> Stamp(sent[id], id)]
               /\ emitted = [id \in 0..(n - 1) |-> Stamp(sent[id], id)]
    /\ SumItems(DOMAIN task) <= MaxChunks
    /\ aborted = FALSE
    /\ jobs = EmptyBag
    /\ create_config_calls = 0

NextFold == \E id \in DOMAIN chan : HandleSpecific(id)

SpecFold == InitFold /\ [][NextFold]_vars

\* update as a function of the events it is given: all the events of a finished
\* transfer reach it, in the order sent (k = 0) or with the transfer's GotTotalSize
\* held back behind the event that follows it (k = 2)
Delayed(events, k) ==
    SubSeq(events, 2, k) \o <<events[1]>> \o SubSeq(events, k + 1, Len(events))

StreamOrders ==
    {[sent |-> e, k |-> k] : e \in {p \in StreamPrefixes : task_after(p).pc = "Ended"},
                             k \in {0, 2}}

arrival(order) ==
    IF order.sent # <<>> /\ Head(order.sent).kind = "GotTotalSize"
       /\ order.k \in 1..Len(order.sent)
    THEN Delayed(order.sent, order.k)
    ELSE order.sent

InitReorder ==
    /\ options = OptionSelection_new(Alpine, DirVms, "x86_64")
    /\ os_list = <<Alpine>>
    /\ pending = None
    /\ outcome = NoOutcome
    /\ page = "Downloading"
    /\ \E n \in 0..MaxDownloads :
           \E order \in [0..(n - 1) -> StreamOrders] :
               /\ \A id \in 0..(n - 1) :
                      order[id].k = 0 <=> arrival(order[id]) = order[id].sent
               /\ downloads = DownloadStatus_new(n)
               /\ task = [id \in 0..(n - 1) |->
                              [task_after(order[id].sent) EXCEPT
                                   !.path = IF id % 2 = 0 THEN "disk.img" ELSE "boot.iso"]]
               /\ chan = [id \in 0..(n - 1) |-> Stamp(arrival(order[id]), id)]
               /\ emitted = [id \in 0..(n - 1) |-> Stamp(arrival(order[id]), id)]
    /\ SumItems(DOMAIN task) <= MaxChunks
    /\ aborted = FALSE
    /\ jobs = EmptyBag
    /\ create_config_calls = 0

SpecReorder == InitReorder /\ [][NextFold]_vars

-----------------------------------------------------------------------------
(* The download page once every transfer has ended and update has handled all of its
   events: the buttons, create_config and the messages to the session *)

\* update applied to events, oldest first
RECURSIVE FoldAll(_, _)
FoldAll(dls, events) ==
    IF events = <<>> THEN dls ELSE FoldAll(fold(dls, Head(events)), Tail(events))

InitFinalize ==
    /\ options = OptionSelection_new(Alpine, DirVms, "x86_64")
    /\ os_list = <<Alpine>>
    /\ pending = None
    /\ outcome = NoOutcome
    /\ page = "Downloading"
    /\ \E n \in 0..MaxDownloads :
           \E sent \in [0..(n - 1) -> {e \in StreamPrefixes :
                                           e # <<>> /\ e[Len(e)].kind = "Done"}] :
               /\ downloads = [id \in 0..(n - 1) |->
                                   FoldAll(DownloadStatus_new(n), Stamp(sent[id], id))[id]]
               /\ task = [id \in 0..(n - 1) |->
                              [task_after(sent[id]) EXCEPT
                                   !.path = IF id % 2 = 0 THEN "disk.img" ELSE "boot.iso"]]
               /\ chan = [id \in 0..(n - 1) |-> <<>>]
               /\ emitted = [id \in 0..(n - 1) |-> Stamp(sent[id], id)]
    /\ SumItems(DOMAIN task) <= MaxChunks
    /\ aborted = FALSE
    /\ jobs = EmptyBag
    /\ create_config_calls = 0

NextFinalize ==
    \/ CancelDownloads
    \/ Finalize
    \/ \E job \in BagToSet(jobs) : CreateConfig(job)
    \/ \E job \in BagToSet(jobs) : HandleSessionMessage(job)
    \/ \E job \in BagToSet(jobs) : HandleFinalizedConfigPath(job)

SpecFinalize == InitFinalize /\ [][NextFinalize]_vars

-----------------------------------------------------------------------------
(* The session from its start: the catalog fetch, the choice of an OS, the selections *)

\* the catalogs ConfigSearch can return
CatalogLists == {<<Alpine>>, <<Alpine, Spins>>, <<Ports, Mixed, Alpine>>}

\* Message::OSList(os_list)
OSListMsg(list) == [kind |-> "OSList", list |-> list]

\* Message::Error(e.to_string()) for the error of the fetch
CatalogError == Msg("SessionError", -2, 0, "")

\* a closure that takes a failed fetch for an empty catalog
fetch_message_or_empty(result) ==
    IF result = None THEN OSListMsg(<<>>) ELSE OSListMsg(result[1])

\* the closure of the task of State::new: the message for the result of the fetch,
\* Some(list) for Ok and None for Err
fetch_message(result) ==
    IF result = None THEN CatalogError ELSE OSListMsg(result[1])

\* State::new: the Loading page, no catalog, no selection, and the fetch under way
InitSession ==
    /\ os_list = <<>>
    /\ options = None
    /\ page = "Loading"
    /\ pending = None
    /\ outcome = NoOutcome
    /\ downloads = <<>>
    /\ task = <<>>
    /\ aborted = FALSE
    /\ chan = <<>>
    /\ jobs = SetToBag({Job(<<"fetch">>, <<>>)})
    /\ create_config_calls = 0
    /\ emitted = <<>>

\* ConfigSearch::new() returns
FetchReturns(job) ==
    /\ job.steps = <<"fetch">>
    /\ \E result \in {None} \cup {Some(list) : list \in CatalogLists} :
           jobs' = Replace(job, Job(<<>>, <<fetch_message(result)>>))
    /\ UNCHANGED <<os_list, options, page, pending, outcome, downloads, task, aborted,
                   chan, create_config_calls, emitted>>

\* State::update(Message::OSList(os_list))
HandleOSList(job) ==
    /\ job.out # <<>>
    /\ Head(job.out).kind = "OSList"
    /\ os_list' = Head(job.out).list
    /\ page' = "SelectOS"
    /\ jobs' = Handled(job)
    /\ UNCHANGED <<options, pending, outcome, downloads, task, aborted, chan,
                   create_config_calls, emitted>>

\* a handler that shows the Options page without building the selection state
SelectedOS_keeps_options ==
    /\ page = "SelectOS"
    /\ os_list # <<>>
    /\ page' = "Options"
    /\ UNCHANGED <<os_list, options, pending, outcome, dlvars>>

\* State::update(Message::SelectedOS(os)), for an OS button of the SelectOS page
SelectedOS ==
    /\ page = "SelectOS"
    /\ \E os \in Range(os_list), dir \in Dirs, host \in HostArchs :
           options' = OptionSelection_new(os, dir, host)
    /\ page' = "Options"
    /\ UNCHANGED <<os_list, pending, outcome, dlvars>>

NextSession ==
    \/ \E job \in BagToSet(jobs) : FetchReturns(job)
    \/ \E job \in BagToSet(jobs) : HandleOSList(job)
    \/ \E job \in BagToSet(jobs) : HandleSessionMessage(job)
    \/ SelectedOS
    \/ SelectedRelease
    \/ SelectedEdition
    \/ SelectedArch

SpecSession == InitSession /\ [][NextSession]_vars

\* the Back button of the Options page: Message::ChangePage(Page::SelectOS)
Back ==
    /\ page = "Options"
    /\ page' = "SelectOS"
    /\ UNCHANGED <<os_list, options, pending, outcome, dlvars>>

\* State::update(Message::SetRAM(ram)), sent by the RAM slider
SetRAM ==
    /\ page = "Options"
    /\ \E ram \in RamChoices : options' = [options EXCEPT !.ram = ram]
    /\ UNCHANGED <<os_list, page, pending, outcome, dlvars>>

\* State::update(Message::SetCPUCores(cores)), sent by the CPU slider
SetCPUCores ==
    /\ page = "Options"
    /\ \E cores \in CpuChoices : options' = [options EXCEPT !.cpu_cores = cores]
    /\ UNCHANGED <<os_list, page, pending, outcome, dlvars>>

\* State::update(Message::SelectedVMDir(dir)): the answer of the chooser arrives on
\* whatever page is shown by then, and the handler unwraps the selection state
SessionSelectedVMDir(job) ==
    /\ job.out # <<>>
    /\ Head(job.out).kind = "SelectedVMDir"
    /\ IF options = None
       THEN page' = "Aborted" /\ options' = options
       ELSE page' = page /\ options' = [options EXCEPT !.directory = Head(job.out).dir]
    /\ jobs' = Handled(job)
    /\ UNCHANGED <<os_list, pending, outcome, downloads, task, aborted, chan,
                   create_config_calls, emitted>>

\* the session from its start to the Options page and back, with every message of the
\* Options page
NextPages ==
    \/ \E job \in BagToSet(jobs) : FetchReturns(job)
    \/ \E job \in BagToSet(jobs) : HandleOSList(job)
    \/ \E job \in BagToSet(jobs) : HandleSessionMessage(job)
    \/ SelectedOS
    \/ Back
    \/ SelectedRelease
    \/ SelectedEdition
    \/ SelectedArch
    \/ SetRAM
    \/ SetCPUCores
    \/ SelectVMDir
    \/ \E job \in BagToSet(jobs) : PickDirectory(job)
    \/ \E job \in BagToSet(jobs) : SessionSelectedVMDir(job)
    \/ \E job \in BagToSet(jobs) : HandleNone(job)
    \/ SelectedVMName
    \/ FinalizeVMName

SpecPages == InitSession /\ [][NextPages]_vars

-----------------------------------------------------------------------------
(* Properties of the download page *)

\* the events of download id that have reached update: what its task produced, less
\* what is still on its way
delivered(id) == SubSeq(emitted[id], 1, Len(emitted[id]) - Len(chan[id]))

\* download id has reported an error to DownloadStatus::update
reported_error(id) == \E i \in 1..Len(delivered(id)) : delivered(id)[i].kind = "Error"

\* C7: while the download page is shown, the Next button that sends Finalize is
\* enabled exactly when every download is done and none has reported an error
C7_CompleteIffAllDoneNoneErrored ==
    page = "Downloading" =>
        (finalize_enabled <=>
            \A id \in DOMAIN downloads :
                downloads[id].done /\ ~reported_error(id))

\* C8: an Error event is the last event its download ever produces, so a download
\* produces at most one and nothing follows it
C8_ErrorIsTerminal ==
    \A id \in DOMAIN emitted :
        \A i \in 1..Len(emitted[id]) :
            emitted[id][i].kind = "Error" => i = Len(emitted[id])

\* C9: once CancelDownloads has aborted the batch, no event of any download reaches
\* update any more, and no task produces a further event
C9_NoEventObservedAfterCancel ==
    [][aborted =>
          /\ ~(\E id \in DOMAIN chan : HandleSpecific(id))
          /\ emitted' = emitted]_vars

\* download id has created its destination file and its body stream is being written
writing(id) == task[id].pc = "Stream"

\* C11: no two downloads of a session write the same destination file at the same time
C11_NoSharedDestination ==
    \A i, j \in DOMAIN task :
        (i # j /\ writing(i) /\ writing(j)) => task[i].path # task[j].path

\* the bytes of the AddedChunk events among events
RECURSIVE SumSizes(_)
SumSizes(events) ==
    IF events = <<>> THEN 0
    ELSE (IF Head(events).kind = "AddedChunk" THEN Head(events).size ELSE 0)
         + SumSizes(Tail(events))

\* C12: the current_size of every download is the sum of the lengths of the chunks
\* delivered for it, and its done flag is set exactly when its Done has been delivered
C12_CurrentSizeIsSumOfChunks ==
    \A id \in DOMAIN downloads :
        /\ downloads[id].current_size = SumSizes(delivered(id))
        /\ downloads[id].done <=>
               \E i \in 1..Len(delivered(id)) : delivered(id)[i].kind = "Done"

\* two chunks have brought a download to its total size and its Done is still to come
C12_Witness ==
    \E id \in DOMAIN downloads :
        /\ downloads[id].total_size = Some(3)
        /\ downloads[id].current_size = 3
        /\ Len(delivered(id)) = 3
        /\ ~downloads[id].done

is_outcome(msg) == msg = ConfigError \/ msg = FinalizedConfigPath

\* C16: create_config hands the session an Error when it fails and a
\* FinalizedConfigPath when it succeeds; handling that Error shows the error page; and
\* the outcome comes after the change to the Finalizing page of the same task, so it
\* is never handled on the download page
C16_FinalizationOutcome ==
    [][/\ create_config_calls' # create_config_calls =>
              \E job \in BagToSet(jobs), done \in BagToSet(jobs') :
                  /\ done.steps = <<>>
                  /\ Len(done.out) = Len(job.out) + 1
                  /\ SubSeq(done.out, 1, Len(job.out)) = job.out
                  /\ is_outcome(done.out[Len(done.out)])
       /\ \A job \in BagToSet(jobs) :
              /\ (HandleSessionMessage(job) /\ Head(job.out) = ConfigError) =>
                     (page # "Downloading" /\ page' = "Error creating config")
              /\ HandleFinalizedConfigPath(job) => page # "Downloading"
              /\ \A i, j \in 1..Len(job.out) :
                     (is_outcome(job.out[i]) /\ job.out[j] = ChangePage("Finalizing"))
                         => j < i]_vars

\* create_config has failed once and the session shows its error
C16_Witness ==
    /\ page = "Error creating config"
    /\ create_config_calls = 1

\* C18: a failed fetch takes the session from Loading to the error page, which it
\* never leaves; a successful fetch stores the list it returned and takes the session
\* from Loading to SelectOS, the only way to get there; no second fetch is started
C18_CatalogFetchOutcome ==
    [][/\ \A job \in BagToSet(jobs) :
              /\ (HandleSessionMessage(job) /\ Head(job.out) = CatalogError) =>
                     /\ page = "Loading"
                     /\ page' = "Error fetching catalog"
                     /\ os_list' = os_list
              /\ HandleOSList(job) =>
                     /\ page = "Loading"
                     /\ page' = "SelectOS"
                     /\ os_list' = Head(job.out).list
       /\ page = "Error fetching catalog" => (page' = page /\ os_list' = os_list)
       /\ (page' = "SelectOS" /\ page # "SelectOS") =>
              /\ os_list' \in CatalogLists
              /\ Job(<<>>, <<OSListMsg(os_list')>>) \in BagToSet(jobs)
       /\ \A job \in BagToSet(jobs') : job.steps = <<"fetch">> => job \in BagToSet(jobs)]_vars

\* the fetch has failed and the session shows its error
C18_Witness ==
    /\ page = "Error fetching catalog"
    /\ os_list = <<>>
    /\ jobs = EmptyBag

\* C23: create_config runs only in a session whose downloads have all reported Done,
\* none of which has reported an Error, and in which CancelDownloads was not handled
C23_CreateConfigOnlyAfterCompletion ==
    [][create_config_calls' # create_config_calls =>
           /\ \A id \in DOMAIN downloads :
                  downloads[id].done /\ ~reported_error(id)
           /\ ~aborted]_vars

\* the Error events of download id that update has handled
errors_handled(id) ==
    Cardinality({i \in 1..Len(delivered(id)) : delivered(id)[i].kind = "Error"})

\* C24: as soon as update has handled an Error event of a transfer, a session Error
\* with that transfer's text is on its way to the session: one for every Error event
\* handled, whatever the other transfers have reported
C24_EveryTransferErrorSurfaced ==
    \A id \in DOMAIN downloads :
        CopiesIn(Perform(SessionError(id)), jobs) = errors_handled(id)

\* two transfers have each reported an error, one of them twice
C24_Witness ==
    /\ DOMAIN downloads = {0, 1}
    /\ CopiesIn(Perform(SessionError(0)), jobs) = 2
    /\ CopiesIn(Perform(SessionError(1)), jobs) = 1
    /\ downloads[0].done

\* C25: DownloadStatus::new makes one Download per descriptor, numbered from 0, each
\* starting at (0, unknown, not done); every event carries the id of a Download of the
\* vector; and handling an event of download id leaves every other Download as it was
C25_OneStatePerTransfer ==
    /\ [](/\ DOMAIN downloads = 0..(Cardinality(DOMAIN task) - 1)
          /\ DOMAIN task = DOMAIN downloads
          /\ \A id \in DOMAIN emitted :
                 /\ \A i \in 1..Len(emitted[id]) : emitted[id][i].id \in DOMAIN downloads
                 /\ delivered(id) = <<>> =>
                        /\ downloads[id].current_size = 0
                        /\ downloads[id].total_size = None
                        /\ downloads[id].done = FALSE)
    /\ [][\A id \in DOMAIN chan :
              (chan[id] # <<>> /\ chan'[id] = Tail(chan[id])) =>
                  /\ DOMAIN downloads' = DOMAIN downloads
                  /\ \A other \in DOMAIN downloads \ {id} :
                         downloads'[other] = downloads[other]]_vars

\* both of two downloads have had events handled, and only the second is done
C25_Witness ==
    /\ DOMAIN downloads = {0, 1}
    /\ delivered(0) # <<>>
    /\ downloads[0].current_size > 0
    /\ ~downloads[0].done
    /\ downloads[1].done

\* the Download that a transfer's own events determine: the bytes of its chunks, the
\* size last announced, and whether Done is among them
expected_download(events) ==
    LET sizes == {i \in 1..Len(events) : events[i].kind = "GotTotalSize"}
        latest == CHOOSE i \in sizes : \A j \in sizes : j <= i
    IN  [current_size |-> SumSizes(events),
         total_size |-> IF sizes = {} THEN None ELSE Some(events[latest].size),
         done |-> \E i \in 1..Len(events) : events[i].kind = "Done"]

\* C26: the Download of every transfer is determined by that transfer's own events, in
\* whatever order the events of the transfers were interleaved and also when a chunk
\* was handled before the transfer's GotTotalSize
C26_FoldIgnoresInterleaving ==
    \A id \in DOMAIN downloads : downloads[id] = expected_download(delivered(id))

\* two transfers are finished, and a chunk of each was handled before its GotTotalSize
C26_Witness ==
    /\ DOMAIN downloads = {0, 1}
    /\ \A id \in DOMAIN downloads :
           /\ chan[id] = <<>>
           /\ Len(emitted[id]) >= 3
           /\ emitted[id][1].kind = "AddedChunk"
           /\ emitted[id][2].kind = "GotTotalSize"
           /\ emitted[id][2].size = 3
           /\ downloads[id].done

\* C27: a transfer produces Done only if the response had a success status and no
\* chunk failed: a response with another status leads to an Error and never to Done
C27_DoneOnlyAfterSuccess ==
    \A id \in DOMAIN emitted :
        (\E i \in 1..Len(emitted[id]) : emitted[id][i].kind = "Done") =>
            /\ is_success(task[id].status)
            /\ \A i \in 1..Len(emitted[id]) : emitted[id][i].kind # "Error"

\* C30: the Options page is shown only when a selection state exists; the selection
\* state is written only when it exists or by the choice of an OS, so no handler
\* unwraps an absent one; and choosing an OS replaces it by a fresh one for that OS
C30_SelectionStateExists ==
    [][/\ (page = "Options" => options # None) /\ (page' = "Options" => options' # None)
       /\ page # "Aborted" /\ page' # "Aborted"
       /\ options' # options => (page = "SelectOS" \/ options # None)
       /\ (page = "SelectOS" /\ page' = "Options") =>
              \E os \in Range(os_list), dir \in Dirs, host \in HostArchs :
                  options' = OptionSelection_new(os, dir, host)]_vars

\* an OS is chosen again after selections, sliders and a name were set for another
C30_Witness ==
    /\ page = "Options"
    /\ options.selected_os = Spins
    /\ options = OptionSelection_new(Spins, options.directory, "x86_64")
    /\ BagCardinality(jobs) > 0

\* C10: create_config runs at most once in a session, however often Finalize is
\* delivered before the page changes to Finalizing
C10_CreateConfigRunsOnce == create_config_calls <= 1

====
